---- MODULE Spec2Model ----
(***************************************************************************)
(* The form state engine of the center-artwork tool (src/src/App.tsx): the *)
(* reducer over the Session, the NumberHandler helpers, and the            *)
(* calculateCenter handler with its clipboard write.                       *)
(*                                                                         *)
(* A text is a sequence of characters (UTF-16 code units).  A character of *)
(* ASCII is the one-character string of itself; a character outside ASCII  *)
(* is the string of U+ and its four hexadecimal digits, "U+00A0" for the   *)
(* no-break space.  A number is an IEEE 754 double, as the program's       *)
(* numbers are: a record [nan, inf, neg, m, e] that is not-a-number, an    *)
(* infinity, or (-1)^neg * m * 2^e with the mantissa m below 2^53.  Every  *)
(* arithmetic step rounds once, to nearest with ties to even; Number(text) *)
(* and parseFloat(text) give the double nearest to the decimal literal;    *)
(* and the text of a number is the one Number::toString gives, the         *)
(* shortest decimal that reads back as it.                                 *)
(***************************************************************************)
EXTENDS Integers, Sequences, FiniteSets, TLC

(* ------------------------------ characters ------------------------------ *)

Digits == {"0", "1", "2", "3", "4", "5", "6", "7", "8", "9"}

\* String.prototype.trim strips WhiteSpace and LineTerminator: tab, line
\* feed, U+000B, form feed, carriage return, space, the no-break space, the
\* byte order mark, the other space separators of Unicode, and the line and
\* paragraph separators.  Number() and parseFloat() skip the same characters.
WhiteSpace ==
  {" ", "\t", "\n", "\r", "\f", "",
   "U+00A0", "U+1680", "U+2000", "U+2001", "U+2002", "U+2003", "U+2004",
   "U+2005", "U+2006", "U+2007", "U+2008", "U+2009", "U+200A", "U+2028",
   "U+2029", "U+202F", "U+205F", "U+3000", "U+FEFF"}

DigitVal(c) ==
  CASE c = "0" -> 0 [] c = "1" -> 1 [] c = "2" -> 2 [] c = "3" -> 3
    [] c = "4" -> 4 [] c = "5" -> 5 [] c = "6" -> 6 [] c = "7" -> 7
    [] c = "8" -> 8 [] c = "9" -> 9

DigitChar(d) ==
  CASE d = 0 -> "0" [] d = 1 -> "1" [] d = 2 -> "2" [] d = 3 -> "3"
    [] d = 4 -> "4" [] d = 5 -> "5" [] d = 6 -> "6" [] d = 7 -> "7"
    [] d = 8 -> "8" [] d = 9 -> "9"

(* -------------------------------- texts --------------------------------- *)

Drop(s, n) == SubSeq(s, n + 1, Len(s))

Take(s, n) == SubSeq(s, 1, n)

\* Length of the longest prefix of s whose elements are all in set cs.
SpanLen(s, cs) ==
  IF \A i \in 1..Len(s) : s[i] \in cs THEN Len(s)
  ELSE (CHOOSE i \in 1..Len(s) :
          s[i] \notin cs /\ \A j \in 1..(i - 1) : s[j] \in cs) - 1

Reverse(s) == [i \in 1..Len(s) |-> s[Len(s) + 1 - i]]

TrimStart(s) == Drop(s, SpanLen(s, WhiteSpace))

TrimEnd(s) == Take(s, Len(s) - SpanLen(Reverse(s), WhiteSpace))

\* text.trim()
Trim(s) == TrimEnd(TrimStart(s))

\* Length of the longest prefix of s that holds no character of set cs.
UntilLen(s, cs) ==
  IF \A i \in 1..Len(s) : s[i] \notin cs THEN Len(s)
  ELSE (CHOOSE i \in 1..Len(s) :
          s[i] \in cs /\ \A j \in 1..(i - 1) : s[j] \notin cs) - 1

\* A split on any white space character.
SplitFirstAnyWhiteSpace(s) == Take(s, UntilLen(s, WhiteSpace))

\* text.split(' ')[0]: the part before the first space character.
SplitFirst(s) == Take(s, UntilLen(s, {" "}))

\* s from position p (1-based) on.
From(s, p) == SubSeq(s, p, Len(s))

\* s[p] exists and is in set cs.
At(s, p, cs) == p <= Len(s) /\ s[p] \in cs

\* The position after an optional character of cs at position p.
SkipOne(s, p, cs) == IF At(s, p, cs) THEN p + 1 ELSE p

\* The position after the run of characters of cs that starts at position p.
SkipAll(s, p, cs) == p + SpanLen(From(s, p), cs)

\* /^-?\d*\.?\d*$/.test(word): a minus sign, digits, a point, digits, each
\* optional, and then the end of the word.
MatchesNumeric(word) ==
  SkipAll(word, SkipOne(word, SkipAll(word, SkipOne(word, 1, {"-"}), Digits),
                        {"."}), Digits) = Len(word) + 1

\* NumberHandler.extractFirstWord, given text.trim().split(' ')[0]
firstWordIfNumeric(word) ==
  IF Len(word) = 0 THEN <<>>
  ELSE IF MatchesNumeric(word) THEN word ELSE <<>>

extractFirstWord(text) == firstWordIfNumeric(SplitFirst(Trim(text)))

(* ------------------------------- integers ------------------------------- *)

\* A natural number of any size is the sequence of its digits to the base
\* 2^15, the least significant first and the top one not zero; <<>> is 0.
\* (TLC's own integers end at 2^31, a double's mantissa at 2^53.)  The
\* operations work through the digits by halves, a carry handed from one
\* half to the next.
LimbBits == 15

Base == 2^LimbBits

\* Decimal digits are read and written four at a time.
ChunkDigits == 4

Max(a, b) == IF a >= b THEN a ELSE b

Min(a, b) == IF a <= b THEN a ELSE b

Small(x) == IF x = 0 THEN <<>> ELSE <<x>>

\* n without zero digits at the top.
Norm(n) ==
  Take(n, Len(n) - SpanLen(Reverse(n), {0}))

RECURSIVE BitLenSmall(_)
BitLenSmall(x) == IF x = 0 THEN 0 ELSE 1 + BitLenSmall(x \div 2)

\* The number of binary digits of n.
BitLen(n) ==
  IF n = <<>> THEN 0 ELSE LimbBits * (Len(n) - 1) + BitLenSmall(n[Len(n)])

IsOdd(n) == n # <<>> /\ n[1] % 2 = 1

Limb(n, i) == IF i <= Len(n) THEN n[i] ELSE 0

\* Digits s with the carry c that leaves them.
Carried(s, c) == [s |-> s, c |-> c]

Joined(l, r) == Carried(l.s \o r.s, r.c)

Closed(r) == r.s \o Small(r.c)

RECURSIVE AddRange(_, _, _, _, _)
AddUpper(a, b, mid, hi, l) == Joined(l, AddRange(a, b, mid + 1, hi, l.c))

AddOne(t) == Carried(<<t % Base>>, t \div Base)

\* The digits lo..hi of a + b, given the carry into digit lo.
AddRange(a, b, lo, hi, carry) ==
  IF lo > hi THEN Carried(<<>>, carry)
  ELSE IF lo = hi THEN AddOne(Limb(a, lo) + Limb(b, lo) + carry)
  ELSE AddUpper(a, b, (lo + hi) \div 2, hi,
                AddRange(a, b, lo, (lo + hi) \div 2, carry))

\* a + b
AddBig(a, b) == Closed(AddRange(a, b, 1, Max(Len(a), Len(b)), 0))

RECURSIVE SubRange(_, _, _, _, _)
SubUpper(a, b, mid, hi, l) == Joined(l, SubRange(a, b, mid + 1, hi, l.c))

SubOne(t) == Carried(<<t % Base>>, IF t < 0 THEN 1 ELSE 0)

\* The digits lo..hi of a - b, given the borrow from digit lo.
SubRange(a, b, lo, hi, borrow) ==
  IF lo > hi THEN Carried(<<>>, borrow)
  ELSE IF lo = hi THEN SubOne(Limb(a, lo) - Limb(b, lo) - borrow)
  ELSE SubUpper(a, b, (lo + hi) \div 2, hi,
                SubRange(a, b, lo, (lo + hi) \div 2, borrow))

\* a - b, for a >= b
SubBig(a, b) == Norm(SubRange(a, b, 1, Len(a), 0).s)

\* The highest place where a and b (of one length) differ, 0 if none.
TopDifference(a, b) ==
  IF a = b THEN 0
  ELSE CHOOSE i \in 1..Len(a) :
         a[i] # b[i] /\ \A j \in (i + 1)..Len(a) : a[j] = b[j]

CmpAt(a, b, i) == IF i = 0 THEN 0 ELSE IF a[i] < b[i] THEN -1 ELSE 1

\* -1, 0 or 1 as a is less than, equal to or greater than b.
CmpBig(a, b) ==
  IF Len(a) # Len(b) THEN (IF Len(a) < Len(b) THEN -1 ELSE 1)
  ELSE CmpAt(a, b, TopDifference(a, b))

RECURSIVE MulRange(_, _, _, _, _)
MulUpper(n, c, mid, hi, l) == Joined(l, MulRange(n, c, mid + 1, hi, l.c))

\* The digits lo..hi of n * c, given the carry into digit lo.
MulRange(n, c, lo, hi, carry) ==
  IF lo > hi THEN Carried(<<>>, carry)
  ELSE IF lo = hi THEN AddOne(n[lo] * c + carry)
  ELSE MulUpper(n, c, (lo + hi) \div 2, hi,
                MulRange(n, c, lo, (lo + hi) \div 2, carry))

\* n * c, for 0 < c <= Base
MulSmall(n, c) == Closed(MulRange(n, c, 1, Len(n), 0))

RECURSIVE DivRange(_, _, _, _, _)
DivJoined(u, l) == Carried(u.s \o l.s, l.c)

DivLower(n, c, lo, mid, u) == DivJoined(u, DivRange(n, c, lo, mid, u.c))

DivOne(t, c) == Carried(<<t \div c>>, t % c)

\* The digits hi down to lo of floor(n / c), the most significant first,
\* given the remainder that comes down into digit hi; the carry out is the
\* remainder below digit lo.
DivRange(n, c, lo, hi, rem) ==
  IF lo > hi THEN Carried(<<>>, rem)
  ELSE IF lo = hi THEN DivOne(rem * Base + n[lo], c)
  ELSE DivLower(n, c, lo, (lo + hi) \div 2,
                DivRange(n, c, (lo + hi) \div 2 + 1, hi, rem))

DivResult(d) == [q |-> Norm(Reverse(d.s)), r |-> d.c]

\* Quotient q and remainder r of n by c, for 0 < c <= Base.
DivSmall(n, c) == DivResult(DivRange(n, c, 1, Len(n), 0))

\* n * 2^k
ShiftLeft(n, k) ==
  IF n = <<>> THEN <<>>
  ELSE [i \in 1..(k \div LimbBits) |-> 0] \o MulSmall(n, 2^(k % LimbBits))

ShiftCut(n, drop, d) ==
  [q |-> d.q, lost |-> d.r # 0 \/ \E i \in 1..Min(drop, Len(n)) : n[i] # 0]

\* floor(n / 2^k) as q; lost tells that a 1 was shifted out.
ShiftRight(n, k) ==
  ShiftCut(n, k \div LimbBits,
           DivSmall(SubSeq(n, Min(k \div LimbBits, Len(n)) + 1, Len(n)),
                    2^(k % LimbBits)))

\* n * 10^k
RECURSIVE MulPow10(_, _)
MulPow10Next(n, k) == IF n = <<>> THEN <<>> ELSE MulPow10(n, k)

MulPow10(n, k) ==
  IF k <= ChunkDigits THEN MulSmall(n, 10^k)
  ELSE MulPow10Next(MulPow10(n, k \div 2), k - k \div 2)

\* floor(n / 10^k) as q; lost (given as so far) tells of a remainder.
RECURSIVE DivPow10(_, _, _)
DivPow10Next(d, k) == IF d.q = <<>> THEN d ELSE DivPow10(d.q, k, d.lost)

DivPow10Last(d, lost) == [q |-> d.q, lost |-> lost \/ d.r # 0]

DivPow10(n, k, lost) ==
  IF k <= ChunkDigits THEN DivPow10Last(DivSmall(n, 10^k), lost)
  ELSE DivPow10Next(DivPow10(n, k \div 2, lost), k - k \div 2)

(* ------------------------------- numbers -------------------------------- *)

\* A Number of the program is an IEEE 754 double: NaN, an infinity, or
\* (-1)^neg * m * 2^e with the integer m below 2^53.  m has exactly 53 binary
\* digits (a normal number), or fewer with e = -1074 (a subnormal one), or
\* is zero with e = 0; zero keeps its sign.  Each operation below gives the
\* exactly rounded result (to nearest, ties to even), as the program's do.
Precision == 53

MinExponent == -1074

MaxExponent == 971

NaN == [nan |-> TRUE, inf |-> FALSE, neg |-> FALSE, m |-> <<>>, e |-> 0]

Infinity(neg) == [nan |-> FALSE, inf |-> TRUE, neg |-> neg, m |-> <<>>, e |-> 0]

Fin(neg, m, e) == [nan |-> FALSE, inf |-> FALSE, neg |-> neg, m |-> m, e |-> e]

Zero(neg) == Fin(neg, <<>>, 0)

IsFinite(a) == ~a.nan /\ ~a.inf

\* m * 2^e with m of at most 54 binary digits, 54 only when m = 2^53.
Finish(neg, m, e) ==
  IF m = <<>> THEN Zero(neg)
  ELSE IF BitLen(m) > Precision
         THEN (IF e + 1 > MaxExponent THEN Infinity(neg)
               ELSE Fin(neg, DivSmall(m, 2).q, e + 1))
  ELSE IF e > MaxExponent THEN Infinity(neg)
  ELSE Fin(neg, m, e)

RoundUp(neg, m, up, e) == Finish(neg, IF up THEN AddBig(m, <<1>>) ELSE m, e)

\* t.q holds the digits kept and one more; it is rounded up when that last
\* digit is 1 and either something nonzero lies below it or the digit
\* above it is 1 (a tie goes to the even mantissa).
RoundCut(neg, t, sticky, e) ==
  RoundUp(neg, DivSmall(t.q, 2).q,
          IsOdd(t.q) /\ (t.lost \/ sticky \/ t.q[1] % 4 = 3), e)

RoundAt(neg, n, e, sticky, e1) ==
  IF e1 <= e THEN Finish(neg, ShiftLeft(n, e - e1), e1)
  ELSE RoundCut(neg, ShiftRight(n, e1 - e - 1), sticky, e1)

\* The double nearest to (n + f) * 2^e, where 0 <= f < 1 and f > 0 exactly
\* when sticky (n then has 55 binary digits or more).
RoundTo(neg, n, e, sticky) ==
  IF n = <<>> THEN Zero(neg)
  ELSE RoundAt(neg, n, e, sticky,
               Max(e + BitLen(n) - Precision, MinExponent))

RoundQuotient(neg, d, e) == RoundTo(neg, d.q, e, d.lost)

\* The double nearest to n * 2^e * 10^p.
ScaledNumber(neg, n, e, p) ==
  IF p >= 0 THEN RoundTo(neg, MulPow10(n, p), e, FALSE)
  ELSE RoundQuotient(neg,
         DivPow10(ShiftLeft(n, Max(0, 4 * (-p) + 56 - BitLen(n))), -p, FALSE),
         e - Max(0, 4 * (-p) + 56 - BitLen(n)))

\* |a| + |b| with the sign given, a and b finite and not zero.
MagAdd(neg, a, b, e) ==
  RoundTo(neg, AddBig(ShiftLeft(a.m, a.e - e), ShiftLeft(b.m, b.e - e)),
          e, FALSE)

MagDiff(a, x, y, c, e) ==
  IF c = 0 THEN Zero(FALSE)
  ELSE IF c > 0 THEN RoundTo(a.neg, SubBig(x, y), e, FALSE)
  ELSE RoundTo(~a.neg, SubBig(y, x), e, FALSE)

\* a + b for a and b of opposite signs, finite and not zero.
MagSub(a, x, y, e) == MagDiff(a, x, y, CmpBig(x, y), e)

\* a + b
Add(a, b) ==
  IF a.nan \/ b.nan THEN NaN
  ELSE IF a.inf THEN (IF b.inf /\ a.neg # b.neg THEN NaN ELSE a)
  ELSE IF b.inf THEN b
  ELSE IF a.m = <<>> /\ b.m = <<>> THEN Zero(a.neg /\ b.neg)
  ELSE IF a.m = <<>> THEN b
  ELSE IF b.m = <<>> THEN a
  ELSE IF a.neg = b.neg THEN MagAdd(a.neg, a, b, Min(a.e, b.e))
  ELSE MagSub(a, ShiftLeft(a.m, a.e - Min(a.e, b.e)),
              ShiftLeft(b.m, b.e - Min(a.e, b.e)), Min(a.e, b.e))

Negate(a) == IF a.nan THEN NaN ELSE [a EXCEPT !.neg = ~a.neg]

\* a - b
Sub(a, b) == Add(a, Negate(b))

\* a / 2
Half(a) ==
  IF a.nan \/ a.inf \/ a.m = <<>> THEN a
  ELSE RoundTo(a.neg, a.m, a.e - 1, FALSE)

\* a * 10^k (a * 1e8: 1e8 is itself a double, so the product is rounded once)
TimesPow10(a, k) ==
  IF a.nan \/ a.inf \/ a.m = <<>> THEN a
  ELSE ScaledNumber(a.neg, a.m, a.e, k)

\* a / 10^k
OverPow10(a, k) ==
  IF a.nan \/ a.inf \/ a.m = <<>> THEN a
  ELSE ScaledNumber(a.neg, a.m, a.e, -k)

\* t.q is floor(2 * |a|): the integer nearest to a, a tie towards +infinity.
RoundHalfUp(neg, t) ==
  RoundTo(neg,
          IF IsOdd(t.q) /\ (~neg \/ t.lost)
            THEN AddBig(DivSmall(t.q, 2).q, <<1>>)
          ELSE DivSmall(t.q, 2).q,
          0, FALSE)

\* Math.round(a)
MathRound(a) ==
  IF a.nan \/ a.inf \/ a.m = <<>> \/ a.e >= 0 THEN a
  ELSE RoundHalfUp(a.neg, ShiftRight(a.m, -a.e - 1))

\* precise: Math.round(num * 1e8) / 1e8
PreciseDigits == 8

\* NumberHandler.precise
precise(num) == OverPow10(MathRound(TimesPow10(num, PreciseDigits)), PreciseDigits)

\* NumberHandler.isValidNumber: !isNaN(num) && isFinite(num)
isValidNumber(num) == ~num.nan /\ ~num.inf

(* --------------------------- number to text ----------------------------- *)

RECURSIVE IntText(_)
IntText(n) ==
  IF n < 10 THEN <<DigitChar(n)>>
  ELSE Append(IntText(n \div 10), DigitChar(n % 10))

Zeros(n) == [i \in 1..n |-> "0"]

StripLeadingZeros(s) == Drop(s, SpanLen(s, {"0"}))

StripTrailingZeros(s) == Take(s, Len(s) - SpanLen(Reverse(s), {"0"}))

SignText(neg) == IF neg THEN <<"-">> ELSE <<>>

\* The ChunkDigits decimal digits of r.
RECURSIVE ChunkText(_, _)
ChunkText(r, k) ==
  IF k = 0 THEN <<>> ELSE Append(ChunkText(r \div 10, k - 1), DigitChar(r % 10))

RECURSIVE DecFrom(_, _)
DecStep(d, acc) == DecFrom(d.q, ChunkText(d.r, ChunkDigits) \o acc)

DecFrom(n, acc) ==
  IF n = <<>> THEN acc ELSE DecStep(DivSmall(n, 10^ChunkDigits), acc)

PadTo(s, w) == Zeros(w - Len(s)) \o s

\* The decimal digits of natural number n, in w places or more.
DecDigits(n, w) == PadTo(DecFrom(n, <<>>), w)

\* floor(v * 2^e * 10^p) as q, with lost telling of a remainder.
Expansion(v, e, p) ==
  IF p >= 0
    THEN (IF e >= 0 THEN [q |-> ShiftLeft(MulPow10(v, p), e), lost |-> FALSE]
          ELSE ShiftRight(MulPow10(v, p), -e))
  ELSE IF e >= 0 THEN DivPow10(ShiftLeft(v, e), -p, FALSE)
  ELSE DivPow10(ShiftRight(v, -e).q, -p, ShiftRight(v, -e).lost)

\* -1, 0 or 1 as digit text a is before, equal to or after b (equal lengths).
RECURSIVE CmpText(_, _, _)
CmpText(a, b, i) ==
  IF i > Len(a) THEN 0
  ELSE IF a[i] # b[i] THEN (IF DigitVal(a[i]) < DigitVal(b[i]) THEN -1 ELSE 1)
  ELSE CmpText(a, b, i + 1)

\* The digit text s plus one in its last place.
RECURSIVE IncText(_)
IncText(s) ==
  IF s = <<>> THEN <<"1">>
  ELSE IF s[Len(s)] = "9" THEN Append(IncText(Take(s, Len(s) - 1)), "0")
  ELSE Append(Take(s, Len(s) - 1), DigitChar(DigitVal(s[Len(s)]) + 1))

\* Places of the decimal expansions compared below.
Places == 21

\* The digits kept must round-trip: the decimal lies between the midpoints
\* lo and hi to the neighbouring doubles, a midpoint itself counting when
\* the mantissa is even (there the tie goes to x).
AtLeast(c, lo, even) == c > 0 \/ (c = 0 /\ ~lo.lost /\ even)

AtMost(c, hi, even) == c < 0 \/ (c = 0 /\ (hi.lost \/ even))

\* Of the decimals below and above x at place j, which is nearer to x:
\* what x holds beyond place j against a half (h); a tie goes to the even
\* digit.
UpIsNearer(x, j, h) ==
  \/ h > 0
  \/ h = 0 /\ x.lost
  \/ h = 0 /\ ~x.lost /\ DigitVal(x.text[j]) % 2 = 1

PickDigits(x, j, down, up, okDown, okUp) ==
  IF okDown /\ okUp
    THEN (IF UpIsNearer(x, j, CmpText(Drop(x.text, j),
                                      <<"5">> \o Zeros(Places - j - 1), 1))
            THEN up ELSE down)
  ELSE IF okDown THEN down
  ELSE IF okUp THEN up
  ELSE <<>>

CheckDigits(x, lo, hi, even, j, down, up) ==
  PickDigits(x, j, down, up,
             AtLeast(CmpText(down, lo.text, 1), lo, even),
             AtMost(CmpText(up, hi.text, 1), hi, even))

\* The decimal that ends at place j and reads back as x, the nearest to x
\* if there are two; <<>> if there is none.
DigitsEndingAt(x, lo, hi, even, j) ==
  CheckDigits(x, lo, hi, even, j,
              Take(x.text, j) \o Zeros(Places - j),
              IncText(Take(x.text, j)) \o Zeros(Places - j))

\* The shortest such decimal: as few digits as possible, 17 always do.
RECURSIVE ShortestFrom(_, _, _, _, _, _)
ShortestTry(x, lo, hi, even, first, k, d) ==
  IF d # <<>> \/ k >= 17 THEN d
  ELSE ShortestFrom(x, lo, hi, even, first, k + 1)

ShortestFrom(x, lo, hi, even, first, k) ==
  ShortestTry(x, lo, hi, even, first, k,
              DigitsEndingAt(x, lo, hi, even, first + k - 1))

Shortest(x, lo, hi, even) ==
  ShortestFrom(x, lo, hi, even, SpanLen(x.text, {"0"}) + 1, 1)

Expanded(d) == [text |-> DecDigits(d.q, Places), lost |-> d.lost]

\* d.ddd from the significant digits sig.
Mantissa(sig) ==
  IF Len(sig) > 1 THEN <<Head(sig), ".">> \o Tail(sig) ELSE sig

\* Number::toString of the decimal 0.sig * 10^n.
DecimalText(sig, n) ==
  IF Len(sig) <= n /\ n <= 21 THEN sig \o Zeros(n - Len(sig))
  ELSE IF 0 < n /\ n <= 21 THEN Take(sig, n) \o <<".">> \o Drop(sig, n)
  ELSE IF -6 < n /\ n <= 0 THEN <<"0", ".">> \o Zeros(-n) \o sig
  ELSE Mantissa(sig) \o <<"e">>
         \o (IF n - 1 < 0 THEN <<"-">> \o IntText(1 - n)
             ELSE <<"+">> \o IntText(n - 1))

\* c is the decimal's digits as a whole number of units 10^(-p).
PlacedText(c, p) ==
  DecimalText(StripTrailingZeros(StripLeadingZeros(c)),
              Places - SpanLen(c, {"0"}) - p)

\* The lower neighbour of 2^52 * 2^e is half as far away as the upper one.
LowerMidpoint(m, e) ==
  IF e > MinExponent /\ m = ShiftLeft(<<1>>, Precision - 1)
    THEN SubBig(MulSmall(m, 4), <<1>>)
  ELSE SubBig(MulSmall(m, 4), <<2>>)

\* p makes x * 10^p a whole number of 18 or 19 digits.
FiniteTextAt(m, e, p) ==
  PlacedText(Shortest(Expanded(Expansion(MulSmall(m, 4), e - 2, p)),
                      Expanded(Expansion(LowerMidpoint(m, e), e - 2, p)),
                      Expanded(Expansion(AddBig(MulSmall(m, 4), <<2>>), e - 2, p)),
                      ~IsOdd(m)),
             p)

FiniteText(m, e) ==
  FiniteTextAt(m, e, 18 - (((BitLen(m) + e - 1) * 30103) \div 100000 + 1))

\* Number.prototype.toString (radix 10), as in `${num}` too.
NumToText(num) ==
  IF num.nan THEN <<"N", "a", "N">>
  ELSE IF num.inf THEN SignText(num.neg) \o <<"I", "n", "f", "i", "n", "i", "t", "y">>
  ELSE IF num.m = <<>> THEN <<"0">>
  ELSE SignText(num.neg) \o FiniteText(num.m, num.e)

(* --------------------------- text to number ----------------------------- *)

RECURSIVE DigitsVal(_)
DigitsVal(s) ==
  IF s = <<>> THEN 0
  ELSE 10 * DigitsVal(Take(s, Len(s) - 1)) + DigitVal(s[Len(s)])

\* The natural number with the decimal digits s[lo..hi]: the upper digits l
\* moved up by the k lower digits, plus the lower digits r.
RECURSIVE BigRange(_, _, _)
BigJoined(l, r, k) == IF l = <<>> THEN r ELSE AddBig(MulPow10(l, k), r)

BigRange(s, lo, hi) ==
  IF hi - lo < ChunkDigits THEN Small(DigitsVal(SubSeq(s, lo, hi)))
  ELSE BigJoined(BigRange(s, lo, (lo + hi) \div 2),
                 BigRange(s, (lo + hi) \div 2 + 1, hi),
                 hi - (lo + hi) \div 2)

BigOfDigits(s) == BigRange(s, 1, Len(s))

\* Beyond these decimal magnitudes every literal is Infinity, or 0.
FarOut == 400

\* The number sig * 10^p for significant digits sig (no leading zero).
DecimalNumber(neg, sig, p) ==
  IF sig = <<>> \/ Len(sig) + p < -FarOut THEN Zero(neg)
  ELSE IF Len(sig) + p > FarOut THEN Infinity(neg)
  ELSE ScaledNumber(neg, BigOfDigits(sig), 0, p)

\* The number with the digits int before the point and frac after it,
\* times 10^exp.
DigitsNumber(neg, int, frac, exp) ==
  DecimalNumber(neg, StripLeadingZeros(int \o frac), exp - Len(frac))

\* The value of an exponent's digits; past six digits the size no longer
\* matters.
ExpVal(ds) == IF Len(ds) > 6 THEN 999999 ELSE DigitsVal(ds)

\* The exponent part at position p of s (e or E, an optional sign, digits),
\* as [len, val]; len is 0 where there is none.
ExpDigits(s, p, q) ==
  IF SkipAll(s, q, Digits) = q THEN [len |-> 0, val |-> 0]
  ELSE [len |-> SkipAll(s, q, Digits) - p,
        val |-> IF At(s, p + 1, {"-"})
                  THEN -ExpVal(StripLeadingZeros(SubSeq(s, q, SkipAll(s, q, Digits) - 1)))
                ELSE ExpVal(StripLeadingZeros(SubSeq(s, q, SkipAll(s, q, Digits) - 1)))]

ExpPart(s, p) ==
  IF At(s, p, {"e", "E"}) THEN ExpDigits(s, p, SkipOne(s, p + 1, {"+", "-"}))
  ELSE [len |-> 0, val |-> 0]

\* The literal whose integer digits end before position i and whose
\* fraction digits are s[j .. k-1], as [ok, inf, int, frac, exp, len].
Literal(s, i, j, k, e) ==
  [ok   |-> (i - 1) + (k - j) > 0,
   inf  |-> FALSE,
   int  |-> SubSeq(s, 1, i - 1),
   frac |-> SubSeq(s, j, k - 1),
   exp  |-> e.val,
   len  |-> (k - 1) + e.len]

FractionPart(s, i, j) ==
  IF j = i THEN Literal(s, i, i, i, ExpPart(s, i))
  ELSE Literal(s, i, j, SkipAll(s, j, Digits),
               ExpPart(s, SkipAll(s, j, Digits)))

IntegerPart(s, i) == FractionPart(s, i, SkipOne(s, i, {"."}))

InfinityText == <<"I", "n", "f", "i", "n", "i", "t", "y">>

InfinityLiteral ==
  [ok |-> TRUE, inf |-> TRUE, int |-> <<>>, frac |-> <<>>, exp |-> 0,
   len |-> Len(InfinityText)]

\* The longest prefix of s that is a StrUnsignedDecimalLiteral (Infinity, or
\* digits, an optional point and digits, an optional exponent part); ok is
\* FALSE when s starts with no such literal (no digit before the exponent).
ScanDecimal(s) ==
  IF Take(s, Min(Len(s), Len(InfinityText))) = InfinityText THEN InfinityLiteral
  ELSE IntegerPart(s, SkipAll(s, 1, Digits))

LiteralNumber(neg, lit) ==
  IF lit.inf THEN Infinity(neg)
  ELSE DigitsNumber(neg, lit.int, lit.frac, lit.exp)

WholeLiteral(neg, body, lit) ==
  IF lit.ok /\ lit.len = Len(body) THEN LiteralNumber(neg, lit) ELSE NaN

PrefixLiteral(neg, lit) == IF lit.ok THEN LiteralNumber(neg, lit) ELSE NaN

Unsigned(s) == From(s, SkipOne(s, 1, {"+", "-"}))

\* The digits of the binary, octal and hexadecimal integer literals.
RadixDigits(r) ==
  Take(<<"0", "1", "2", "3", "4", "5", "6", "7", "8", "9",
         "a", "b", "c", "d", "e", "f">>, r)

Lower(c) ==
  CASE c = "A" -> "a" [] c = "B" -> "b" [] c = "C" -> "c" [] c = "D" -> "d"
    [] c = "E" -> "e" [] c = "F" -> "f" [] OTHER -> c

RadixVal(c, r) ==
  (CHOOSE v \in 1..r : RadixDigits(r)[v] = Lower(c)) - 1

IsRadixDigit(c, r) == \E v \in 1..r : RadixDigits(r)[v] = Lower(c)

\* Bit j (0 the lowest) of the number whose digits to the radix 2^bits
\* follow the two characters of the prefix of s.
RadixBit(s, bits, j) ==
  IF j \div bits >= Len(s) - 2 THEN 0
  ELSE (RadixVal(s[Len(s) - j \div bits], 2^bits) \div 2^(j % bits)) % 2

\* The value of the n bits from bit j on.
RECURSIVE RadixLimb(_, _, _, _)
RadixLimb(s, bits, j, n) ==
  IF n = 0 THEN 0
  ELSE RadixBit(s, bits, j) + 2 * RadixLimb(s, bits, j + 1, n - 1)

\* The natural number of those digits.
RadixBig(s, bits) ==
  Norm([i \in 1..(((Len(s) - 2) * bits + LimbBits - 1) \div LimbBits) |->
          RadixLimb(s, bits, LimbBits * (i - 1), LimbBits)])

\* The number of the digits after the prefix; NaN when there is no digit or
\* one that is not of the radix.
RadixLiteral(s, bits) ==
  IF Len(s) > 2 /\ \A i \in 3..Len(s) : IsRadixDigit(s[i], 2^bits)
    THEN RoundTo(FALSE, RadixBig(s, bits), 0, FALSE)
  ELSE NaN

\* The binary digits per digit that a 0b, 0o or 0x prefix names, 0 when s
\* has none.
RadixBits(s) ==
  IF Len(s) < 2 \/ s[1] # "0" THEN 0
  ELSE IF s[2] \in {"b", "B"} THEN 1
  ELSE IF s[2] \in {"o", "O"} THEN 3
  ELSE IF s[2] \in {"x", "X"} THEN 4
  ELSE 0

\* StringToNumber of a text without surrounding white space: the empty text
\* is 0; a text that is not one whole numeric literal is NaN.
TrimmedNumber(s) ==
  IF s = <<>> THEN Zero(FALSE)
  ELSE IF RadixBits(s) # 0 THEN RadixLiteral(s, RadixBits(s))
  ELSE WholeLiteral(At(s, 1, {"-"}), Unsigned(s), ScanDecimal(Unsigned(s)))

\* Number(text)
StringToNumber(text) == TrimmedNumber(Trim(text))

LeadingNumber(s) == PrefixLiteral(At(s, 1, {"-"}), ScanDecimal(Unsigned(s)))

\* parseFloat(text): the number of the longest prefix (after leading white
\* space) that is a decimal literal, NaN when there is none.
parseFloat(text) == LeadingNumber(TrimStart(text))

\* const INCREMENT = 0.1
INCREMENT == StringToNumber(<<"0", ".", "1">>)

validOrZero(num) ==
  IF isValidNumber(num) THEN NumToText(precise(num)) ELSE <<"0">>

\* An increment without the empty-text case.
incrementAlwaysParsed(text, delta) == validOrZero(Add(parseFloat(text), delta))

\* NumberHandler.incrementIfValid
incrementIfValid(text, delta) ==
  IF Len(text) = 0 THEN NumToText(delta)
  ELSE validOrZero(Add(parseFloat(text), delta))

(* ------------------------- state and reducer ---------------------------- *)

Fields == {"previousPosition", "offsetStart", "offsetEnd"}

initialState ==
  [axis             |-> "x",
   previousPosition |-> <<>>,
   offsetStart      |-> <<>>,
   offsetEnd        |-> <<>>,
   result           |-> <<>>,
   finished         |-> FALSE]

\* A reset that leaves the chosen axis in place.
resetKeepsAxis(s) == [initialState EXCEPT !.axis = s.axis]

\* case 'RESET': return initialState
resetState(s) == initialState

reducer(s, action) ==
  CASE action.type = "SET_AXIS" ->
         [s EXCEPT !.axis = action.payload]
    [] action.type = "SET_PREVIOUS_POSITION" ->
         [s EXCEPT !.previousPosition = action.payload]
    [] action.type = "SET_OFFSET_START" ->
         [s EXCEPT !.offsetStart = action.payload]
    [] action.type = "SET_OFFSET_END" ->
         [s EXCEPT !.offsetEnd = action.payload]
    [] action.type = "SET_RESULT" ->
         [s EXCEPT !.result = action.payload]
    [] action.type = "SET_FINISHED" ->
         [s EXCEPT !.finished = action.payload]
    [] action.type = "INCREMENT_PREVIOUS_POSITION" ->
         [s EXCEPT !.previousPosition =
                      incrementIfValid(s.previousPosition, action.payload)]
    [] action.type = "INCREMENT_OFFSET_START" ->
         [s EXCEPT !.offsetStart =
                      incrementIfValid(s.offsetStart, action.payload)]
    [] action.type = "INCREMENT_OFFSET_END" ->
         [s EXCEPT !.offsetEnd =
                      incrementIfValid(s.offsetEnd, action.payload)]
    [] action.type = "RESET" -> resetState(s)
    [] OTHER -> s

(* ------------------------------ handlers -------------------------------- *)

\* What a handler does, in order, is a sequence of effects: a dispatch to
\* the reducer, a call of navigator.clipboard.writeText, or a throw that
\* ends the handler.
Dispatch(type, payload) == [do |-> "dispatch", type |-> type, payload |-> payload]

WriteText(text) == [do |-> "writeText", type |-> "clipboard", payload |-> text]

Throw(error) == [do |-> "throw", type |-> error, payload |-> <<>>]

\* The action types of the three rows of the form.
SetType(field) ==
  CASE field = "previousPosition" -> "SET_PREVIOUS_POSITION"
    [] field = "offsetStart"      -> "SET_OFFSET_START"
    [] field = "offsetEnd"        -> "SET_OFFSET_END"

IncType(field) ==
  CASE field = "previousPosition" -> "INCREMENT_PREVIOUS_POSITION"
    [] field = "offsetStart"      -> "INCREMENT_OFFSET_START"
    [] field = "offsetEnd"        -> "INCREMENT_OFFSET_END"

\* Axis select, onMouseDown.
axisEffects(a) == <<Dispatch("SET_AXIS", a)>>

\* Row, input onChange: the typed text goes through extractFirstWord.
onChangeEffects(field, raw) == <<Dispatch(SetType(field), extractFirstWord(raw))>>

\* Row, arrows onMouseDown: onInc(d) for d in [INCREMENT, -INCREMENT].
onIncEffects(field, delta) == <<Dispatch(IncType(field), delta)>>

\* const shift = (o1 + o2) / 2 - o1
shiftOf(o1, o2) == Sub(Half(Add(o1, o2)), o1)

\* const newPos = NumberHandler.precise(prev - shift).toString()
newPosOf(prev, shift) == NumToText(precise(Sub(prev, shift)))

\* A calculation that adds the shift on the vertical axis.
newPosTextByAxis(s) ==
  newPosOf(StringToNumber(s.previousPosition),
           IF s.axis = "y"
             THEN Negate(shiftOf(StringToNumber(s.offsetStart),
                                 StringToNumber(s.offsetEnd)))
           ELSE shiftOf(StringToNumber(s.offsetStart),
                        StringToNumber(s.offsetEnd)))

\* The text calculateCenter computes from the rendered Session.
newPosText(s) ==
  newPosOf(StringToNumber(s.previousPosition),
           shiftOf(StringToNumber(s.offsetStart), StringToNumber(s.offsetEnd)))

\* The effects of calculateCenter after newPos is computed: the clipboard
\* write comes first; where the browsing context has no navigator.clipboard
\* the member access throws a TypeError and neither dispatch is reached.
copyAndShow(newPos, api) ==
  IF ~api THEN <<Throw("TypeError")>>
  ELSE <<WriteText(newPos),
         Dispatch("SET_RESULT", newPos),
         Dispatch("SET_FINISHED", TRUE)>>

calculateCenterEffects(s, api) == copyAndShow(newPosText(s), api)

\* Result overlay: the backdrop's onClick and the Continue button.
dismissEffects == <<Dispatch("SET_FINISHED", FALSE)>>

\* Result overlay: the Reset button.
resetEffects == <<[do |-> "dispatch", type |-> "RESET", payload |-> <<>>]>>

\* The Session after the dispatches among the effects, in order.
RECURSIVE RunEffects(_, _)
RunEffects(s, effs) ==
  IF effs = <<>> THEN s
  ELSE RunEffects(IF Head(effs).do = "dispatch" THEN reducer(s, Head(effs)) ELSE s,
                  Tail(effs))

(* ---------------------------- state machine ----------------------------- *)

VARIABLES
  state,      \* the Session held by useReducer
  twin,       \* a second Session, given the same commands but no setAxis
  clipboard,  \* [api: navigator.clipboard exists,
              \*  promise: the promise the most recent call of writeText
              \*  returned: none yet, pending, resolved or rejected]
  effects,    \* the effects of the most recent handler, in order
  last,       \* the most recent handler and what the user gave it
  incs        \* arrow presses so far

vars == <<state, twin, clipboard, effects, last, incs>>

\* Arrow presses in one run.
MaxIncs == 1

T5 == <<"5">>

TMinus == <<"-">>

TDot == <<".">>

\* -0.0999999: one arrow press away from 1e-7.
TSmall == <<"-", "0", ".", "0", "9", "9", "9", "9", "9", "9">>

\* What the user types into each row: into the first -0.0999999 after a
\* no-break space and before " x", or 120; into the second 20 after a
\* space; into the third 60 before a tab.
RawTexts(f) ==
  CASE f = "previousPosition" ->
         {<<"U+00A0">> \o TSmall \o <<" ", "x">>, <<"1", "2", "0">>}
    [] f = "offsetStart" -> {<<" ", "2", "0">>}
    [] f = "offsetEnd"   -> {<<"6", "0", "\t">>}

Deltas == {INCREMENT, Negate(INCREMENT)}

Init ==
  /\ state = initialState
  /\ twin = initialState
  /\ clipboard \in {[api |-> a, promise |-> "none"] : a \in BOOLEAN}
  /\ effects = <<>>
  /\ last = [handler |-> "mount", field |-> "", raw |-> <<>>]
  /\ incs = 0

HasWrite(effs) == \E i \in 1..Len(effs) : effs[i].do = "writeText"

\* One handler run on the Session: its effects applied in order.  The
\* promise of a write to the clipboard is not awaited: it is pending when
\* the handler returns.
Handle(name, field, raw, effs) ==
  /\ state' = RunEffects(state, effs)
  /\ effects' = effs
  /\ last' = [handler |-> name, field |-> field, raw |-> raw]
  /\ clipboard' = IF HasWrite(effs) THEN [clipboard EXCEPT !.promise = "pending"]
                  ELSE clipboard

\* A later turn of the event loop: the browser resolves or rejects the
\* pending promise.  Nothing is attached to it, so no code runs.
Settle ==
  /\ clipboard.promise = "pending"
  /\ \E p \in {"resolved", "rejected"} :
       clipboard' = [clipboard EXCEPT !.promise = p]
  /\ UNCHANGED <<state, twin, effects, last, incs>>

SetAxisTo(a) ==
  /\ Handle("setAxis", "", <<>>, axisEffects(a))
  /\ UNCHANGED <<twin, incs>>

OnChangeOf(f, raws) ==
  \E raw \in raws :
    /\ Handle("onChange", f, raw, onChangeEffects(f, raw))
    /\ UNCHANGED <<twin, incs>>

OnIncOf(f, d) ==
  /\ incs < MaxIncs
  /\ incs' = incs + 1
  /\ Handle("onInc", f, <<>>, onIncEffects(f, d))
  /\ UNCHANGED twin

SetAxis == \E a \in {"x", "y"} : SetAxisTo(a)

OnChange == \E f \in Fields : OnChangeOf(f, RawTexts(f))

OnInc == \E f \in Fields, d \in Deltas : OnIncOf(f, d)

CalculateCenter ==
  /\ Handle("calculateCenter", "", <<>>,
            calculateCenterEffects(state, clipboard.api))
  /\ UNCHANGED <<twin, incs>>

Dismiss ==
  /\ state.finished
  /\ Handle("dismiss", "", <<>>, dismissEffects)
  /\ UNCHANGED <<twin, incs>>

Reset ==
  /\ state.finished
  /\ Handle("reset", "", <<>>, resetEffects)
  /\ UNCHANGED <<twin, incs>>

Next ==
  \/ SetAxis
  \/ OnChange
  \/ OnInc
  \/ CalculateCenter
  \/ Settle
  \/ Dismiss
  \/ Reset

Spec == Init /\ [][Next]_vars

(* ---------------- the calculation over a wider set of texts -------------- *)

\* 0.000000015: num * 1e8 is a double just below 1.5.
T15 == <<"0", ".", "0", "0", "0", "0", "0", "0", "0", "1", "5">>

\* 0.000000011: its half keeps an eleventh decimal.
T11 == <<"0", ".", "0", "0", "0", "0", "0", "0", "0", "1", "1">>

\* Texts typed into the three rows: the README's example (120, 20, 60), the
\* negative-shift example (0, -10, 10), a bare sign and a bare point, and
\* texts with more digits than precise keeps.  A row not yet typed into is
\* empty.
PrevTexts == {<<"1", "2", "0">>, <<"0">>, T15, <<"-">>}

StartTexts == {<<"2", "0">>, <<"-", "1", "0">>, <<"-", "3", ".">>, <<".">>}

EndTexts == {<<"6", "0">>, <<"1", "0">>, <<".", "5">>, T11}

ChangePrev == OnChangeOf("previousPosition", PrevTexts)

ChangeStart == OnChangeOf("offsetStart", StartTexts)

ChangeEnd == OnChangeOf("offsetEnd", EndTexts)

NextCalc ==
  \/ ChangePrev
  \/ ChangeStart
  \/ ChangeEnd
  \/ CalculateCenter
  \/ Settle

SpecCalc == Init /\ [][NextCalc]_vars

(* ------------------- the extractor over every short text ----------------- *)

\* Length of the typed texts that are enumerated in full.
MaxLen == 3

\* The characters of the enumerated texts.
ExtractChars == {"7", "-", ".", " ", "\t", "a", "U+00A0"}

ExampleTexts ==
  {<<"1", "2", ".", "5">>,
   <<"-", "3", ".">>,
   <<"a", "b", "c">>,
   <<" ", " ", "7", " ", "a", "n", "d", " ", "m", "o", "r", "e">>,
   <<>>,
   <<"1", "2", ".", "3", ".", "4">>,
   <<"7", "\t", "a", "n", "d", " ", "m", "o", "r", "e">>,
   <<"U+00E9", "5">>,
   <<"U+200B", "5">>,
   <<"U+3000", "5", "U+2028">>}

ExtractTexts ==
  ExampleTexts \cup UNION {[1..n -> ExtractChars] : n \in 0..MaxLen}

TypeText == OnChangeOf("previousPosition", ExtractTexts)

NextExtract == TypeText

SpecExtract == Init /\ [][NextExtract]_vars

(* ------------------------- the arrows of the rows ------------------------ *)

\* -0.0000000051: less than a unit of precise below 0.
TTiny == <<"-", "0", ".", "0", "0", "0", "0", "0", "0", "0", "0", "5", "1">>

\* 310 nines: above every finite double.
THuge == [i \in 1..310 |-> "9"]

IncTexts == {<<>>, T5, TMinus, TDot, TSmall, TTiny, THuge}

\* What the user types into the rows beside the one under test.
BesideTexts == {T5}

TypeNumber == OnChangeOf("previousPosition", IncTexts)

TypeBeside ==
  \E f \in {"offsetStart", "offsetEnd"} : OnChangeOf(f, BesideTexts)

NextInc ==
  \/ TypeNumber
  \/ TypeBeside
  \/ OnInc

SpecInc == Init /\ [][NextInc]_vars

(* --------------- two runs that differ in the axis only ------------------- *)

\* What the user types into each row of both runs.
AxisTexts(f) ==
  CASE f = "previousPosition" -> {<<"1", "2", "0", " ", "m", "m">>}
    [] f = "offsetStart"      -> {<<" ", "2", "0">>}
    [] f = "offsetEnd"        -> {<<"6", "0", "\t">>}

\* The handler run on both Sessions, each from its own rendered state.
Both(name, field, raw, effs, twinEffs) ==
  /\ Handle(name, field, raw, effs)
  /\ twin' = RunEffects(twin, twinEffs)

AxisHere ==
  \E a \in {"x", "y"} : SetAxisTo(a)

BothChange ==
  \E f \in Fields : \E raw \in AxisTexts(f) :
    /\ Both("onChange", f, raw, onChangeEffects(f, raw), onChangeEffects(f, raw))
    /\ UNCHANGED incs

BothInc ==
  \E f \in Fields, d \in Deltas :
    /\ incs < MaxIncs
    /\ incs' = incs + 1
    /\ Both("onInc", f, <<>>, onIncEffects(f, d), onIncEffects(f, d))

BothCalculate ==
  /\ Both("calculateCenter", "", <<>>,
          calculateCenterEffects(state, clipboard.api),
          calculateCenterEffects(twin, clipboard.api))
  /\ UNCHANGED incs

BothDismiss ==
  /\ state.finished /\ twin.finished
  /\ Both("dismiss", "", <<>>, dismissEffects, dismissEffects)
  /\ UNCHANGED incs

BothReset ==
  /\ state.finished /\ twin.finished
  /\ Both("reset", "", <<>>, resetEffects, resetEffects)
  /\ UNCHANGED incs

NextAxis ==
  \/ AxisHere
  \/ BothChange
  \/ BothInc
  \/ BothCalculate
  \/ Settle
  \/ BothDismiss
  \/ BothReset

SpecAxis == Init /\ [][NextAxis]_vars

(* ------------------------------- claims --------------------------------- *)

\* The most recent handler was h.
Ran(h) == last.handler = h

\* The most recent handler ran to its end: no throw cut it short.
Completed == \A i \in 1..Len(effects) : effects[i].do # "throw"

HasDigit(t) == \E i \in 1..Len(t) : t[i] \in Digits

\* A text the extractor lets through that is no number: a bare sign or point.
NoDigit(t) == t # <<>> /\ ~HasDigit(t)

SetMin(S) == CHOOSE x \in S : \A y \in S : x <= y

SetMax(S) == CHOOSE x \in S : \A y \in S : y <= x

\* The pattern "optional minus, digits, optional single point, digits",
\* stated by the places of its parts.
NumericPattern(w) ==
  \E m \in {0, 1} :
    /\ m = 1 => (Len(w) >= 1 /\ w[1] = "-")
    /\ \E k \in m..Len(w) :
         /\ \A x \in (m + 1)..k : w[x] \in Digits
         /\ \/ k = Len(w)
            \/ /\ w[k + 1] = "."
               /\ \A x \in (k + 2)..Len(w) : w[x] \in Digits

\* The text between the first and the last character that is no white space.
TrimmedSpec(text) ==
  LET keep == {i \in 1..Len(text) : text[i] \notin WhiteSpace}
  IN  IF keep = {} THEN <<>> ELSE SubSeq(text, SetMin(keep), SetMax(keep))

\* The part of text before its first separator.
FirstTokenSpec(text, seps) ==
  LET cuts == {i \in 1..Len(text) : text[i] \in seps}
  IN  IF cuts = {} THEN text ELSE SubSeq(text, 1, SetMin(cuts) - 1)

\* The extractor's contract for tokens split at the separators seps.
ExtractorSpec(text, seps) ==
  LET w == FirstTokenSpec(TrimmedSpec(text), seps)
  IN  IF w # <<>> /\ NumericPattern(w) THEN w ELSE <<>>

\* round8(x) = round(x * 10^8) / 10^8
Round8(x) == OverPow10(MathRound(TimesPow10(x, 8)), 8)

\* round8(p - ((s + e) / 2 - s)) for the numbers p, s, e.
CenterOf(p, s, e) == Round8(Sub(p, Sub(Half(Add(s, e)), s)))

\* The same for the numbers of three texts.
ExpectedCenter(p, s, e) ==
  CenterOf(StringToNumber(p), StringToNumber(s), StringToNumber(e))

\* What an arrow press is to store for the field text t and the delta d.
StoredSum(n) == IF IsFinite(n) THEN NumToText(Round8(n)) ELSE <<"0">>

ExpectedIncrement(t, d) ==
  IF t = <<>> THEN NumToText(d) ELSE StoredSum(Add(StringToNumber(t), d))

FieldsAre(p, s, e) ==
  /\ state.previousPosition = p
  /\ state.offsetStart = s
  /\ state.offsetEnd = e

(* C1 as claimed: for all texts of the three fields that are decimal
   numbers p, s, e, calculate writes to result the text of
   round8(p - ((s + e) / 2 - s)), round8(x) being round(x * 10^8) / 10^8 in
   the program's floating point; 120, 20, 60 gives "100" and 0, -10, 10
   gives "-10". *)
C1_CalculateFormula ==
  (Ran("calculateCenter") /\ \A f \in Fields : HasDigit(state[f]))
    => /\ state.result =
            NumToText(ExpectedCenter(state.previousPosition,
                                     state.offsetStart, state.offsetEnd))
       /\ FieldsAre(<<"1", "2", "0">>, <<"2", "0">>, <<"6", "0">>) => state.result = <<"1", "0", "0">>
       /\ FieldsAre(<<"0">>, <<"-", "1", "0">>, <<"1", "0">>) => state.result = <<"-", "1", "0">>

(* C2 as claimed: calculate from editing (and again while finished) yields
   finished = true and result = the computed text; a dismiss yields
   finished = false with the three field texts unchanged; a reset yields all
   text fields empty and finished = false. *)
C2_Transitions ==
  [][/\ last'.handler = "calculateCenter"
          => (state'.finished /\ state'.result = newPosText(state))
     /\ last'.handler = "dismiss"
          => (~state'.finished /\ \A f \in Fields : state'[f] = state[f])
     /\ last'.handler = "reset"
          => (~state'.finished /\ state'.result = <<>>
              /\ \A f \in Fields : state'[f] = <<>>)]_vars

(* C3: a reset yields exactly the initial Session, after the Reset button
   and from every reachable Session the reducer is given RESET in. *)
C3_ResetIsInitial ==
  /\ Ran("reset") => state = initialState
  /\ reducer(state, [type |-> "RESET"]) = initialState

C3_Witness ==
  /\ Ran("reset")
  /\ state = initialState
  /\ incs > 0

(* C4 as claimed: a calculate with a field that is empty or holds a text
   that is no number ("", "-" or ".") computes not-a-number and writes
   "NaN" to result. *)
C4_EmptyOrInvalidIsNaN ==
  (Ran("calculateCenter")
     /\ \E f \in Fields : state[f] = <<>> \/ NoDigit(state[f]))
    => state.result = <<"N", "a", "N">>

(* C5 as claimed: the extractor trims, splits at any white space character,
   and passes the first token when it matches the pattern. *)
C5_SplitsOnAnyWhiteSpace ==
  Ran("onChange") => state[last.field] = ExtractorSpec(last.raw, WhiteSpace)

(* C5 amended: the extractor trims surrounding white space, splits at the
   space character only, and returns the first token unchanged when it is
   non-empty and matches the pattern, the empty text otherwise; a token
   that holds a tab is rejected whole. *)
C5_SplitsOnSpace ==
  Ran("onChange")
    => /\ state[last.field] = ExtractorSpec(last.raw, {" "})
       /\ last.raw = <<"1", "2", ".", "5">> => state[last.field] = <<"1", "2", ".", "5">>
       /\ last.raw = <<"-", "3", ".">> => state[last.field] = <<"-", "3", ".">>
       /\ last.raw = <<"a", "b", "c">> => state[last.field] = <<>>
       /\ last.raw = <<" ", " ", "7", " ", "a", "n", "d", " ", "m", "o", "r", "e">> => state[last.field] = <<"7">>
       /\ last.raw = <<>> => state[last.field] = <<>>
       /\ last.raw = <<"1", "2", ".", "3", ".", "4">> => state[last.field] = <<>>
       /\ last.raw = <<"7", "\t", "a", "n", "d", " ", "m", "o", "r", "e">> => state[last.field] = <<>>
       /\ last.raw = <<"U+00E9", "5">> => state[last.field] = <<>>
       /\ last.raw = <<"U+200B", "5">> => state[last.field] = <<>>
       /\ last.raw = <<"U+3000", "5", "U+2028">> => state[last.field] = <<"5">>

C5_Witness ==
  /\ Ran("onChange")
  /\ last.raw = <<"7", "\t", "a", "n", "d", " ", "m", "o", "r", "e">>
  /\ state.previousPosition = <<>>

(* C6: an arrow press stores the text of the delta when the field is empty
   ("" with 0.1 gives "0.1"), otherwise the text of round8(number + delta)
   ("5" with -0.1 gives "4.9"), and "0" when number + delta is NaN or not
   finite (a field of "-", of ".", or of 310 nines); it throws nothing and
   changes nothing but the field named. *)
C6_Increment ==
  [][last'.handler = "onInc"
       => LET f == last'.field
              t == state[f]
              d == effects'[1].payload
          IN  /\ Completed'
              /\ state'[f] = ExpectedIncrement(t, d)
              /\ (t = <<>> /\ d = INCREMENT) => state'[f] = <<"0", ".", "1">>
              /\ (t = <<"5">> /\ d = Negate(INCREMENT)) => state'[f] = <<"4", ".", "9">>
              /\ t \in {TMinus, TDot, THuge} => state'[f] = <<"0">>
              /\ (t = TTiny /\ d = INCREMENT)
                   => state'[f] = <<"0", ".", "0", "9", "9", "9", "9", "9", "9", "9">>
              /\ state' = [state EXCEPT ![f] = state'[f]]]_vars

C6_Witness ==
  /\ Ran("onInc")
  /\ last.field = "previousPosition"
  /\ state.previousPosition = <<"4", ".", "9">>
  /\ state.offsetStart = <<"5">>

(* C7 as claimed: in every reachable state each of previousPosition,
   offsetStart and offsetEnd is empty or matches the optionally-signed
   decimal pattern. *)
C7_FieldsAreDecimal ==
  \A f \in Fields : state[f] = <<>> \/ NumericPattern(state[f])

(* C8 as claimed: whatever the clipboard write does (resolves, rejects, or
   there is no clipboard), calculate ends with result = the computed text
   and finished = true, and changes nothing else of the Session. *)
C8_ClipboardNeverAltersSession ==
  [][last'.handler = "calculateCenter"
       => state' = [state EXCEPT !.result = newPosText(state),
                                 !.finished = TRUE]]_vars

(* C9: two runs given the same texts, arrows, calculate, dismiss and reset,
   one of them with setAxis commands in between (any two runs then agree
   with each other as well), agree on every field but the axis:
   setAxis changes nothing else, and calculate writes the same result and
   finished in both. *)
C9_AxisIsCosmetic ==
  /\ \A f \in Fields : state[f] = twin[f]
  /\ state.result = twin.result
  /\ state.finished = twin.finished

C9_Witness ==
  /\ Ran("calculateCenter") /\ Completed
  /\ state.axis # twin.axis
  /\ FieldsAre(<<"1", "2", "0">>, <<"2", "0">>, <<"6", "0">>)
  /\ state.result = <<"1", "0", "0">>
  /\ twin.result = <<"1", "0", "0">>

(* C10 as claimed: every calculate invokes the clipboard write exactly once,
   with the text it stores in result, and only after both dispatches. *)
C10_WriteAfterTransition ==
  Ran("calculateCenter")
    => \E i \in 1..Len(effects) :
         /\ effects[i].do = "writeText"
         /\ effects[i].payload = state.result
         /\ \A j \in 1..Len(effects) :
              /\ j # i => effects[j].do # "writeText"
              /\ effects[j].do = "dispatch" => j < i

====
